---- MODULE Spec2Model ----
(***************************************************************************)
(* Note store of notes_frontend/src/App.js: the notes collection, the      *)
(* selected note id, the search query, the derived views (filteredNotes,   *)
(* selectedNote), the handlers that mutate them, and the staged title and   *)
(* content of the NoteEditor with its save.                                *)
(*                                                                         *)
(* Strings are sequences of one-character strings, so that toLowerCase,    *)
(* trim and includes are computed character by character.  An id           *)
(* 'id-' + Date.now() + '-' + r is the pair <<Date.now(), r>> (the two     *)
(* numbers are separated by '-', so the string determines the pair).       *)
(* Timestamps are the clock readings themselves.                           *)
(***************************************************************************)
EXTENDS Integers, Sequences, FiniteSets, TLC

VARIABLES
    notes,              \* useState([]) : the collection, most recent first
    selectedNoteId,     \* useState(null)
    searchQuery,        \* useState('')
    now,                \* the wall clock read by new Date() / Date.now()
    title,              \* NoteEditor useState(note.title); '' while no editor is mounted
    content,            \* NoteEditor useState(note.content); '' while no editor is mounted
    cNotes,             \* `notes` as captured by the handlers of the last render
    cSelectedNoteId,    \* `selectedNoteId` as captured by the last render
    issued,             \* history: every id generateId has returned, in order
    last,               \* history: the last handler that ran, with its arguments
    prevNotes,          \* history: notes before the last handler ran
    prevSelectedNoteId, \* history: selectedNoteId before the last handler ran
    prevTitle,          \* history: the staged title before the last handler ran
    prevContent,        \* history: the staged content before the last handler ran
    loadedFrom,         \* history: id of the note the staged fields were loaded from
    saves,              \* history: save triggers in a row with no edit between, up to 2
    steps               \* history: the number of events handled so far

vars == <<notes, selectedNoteId, searchQuery, now, title, content, cNotes,
          cSelectedNoteId, issued, last, prevNotes, prevSelectedNoteId,
          prevTitle, prevContent, loadedFrom, saves, steps>>

----------------------------------------------------------------------------
(* Bounds of the model *)

\* events handled in one run
MaxSteps == 4
\* distinct values Math.random() contributes to an id
MaxRand == 2
\* length of the collections the derived views are applied to (SpecView)
MaxNotes == 3

(* Math.floor(Math.random()*9999) lies in 0 .. RandSpan-1 *)
RandSpan == 9999

----------------------------------------------------------------------------
(* Values *)

null == <<>>
undefined == [undefined |-> TRUE]
NoFields == [k \in {} |-> <<>>]

\* a note created with an empty title
EmptyTitle == <<>>

UntitledNote == <<"U","n","t","i","t","l","e","d"," ","N","o","t","e">>

\* the texts of the end-to-end scenario
Groceries == <<"G","r","o","c","e","r","i","e","s">>
MilkEggs == <<"m","i","l","k",","," ","e","g","g","s">>
Milk == <<"m","i","l","k">>

\* texts the user may type into the title and content fields
Titles == { UntitledNote, <<"A","b">> }
Contents == { <<>>, <<"a"," ","B">> }

\* texts the user may type into the search box
Queries == { <<>>, <<" ">>, <<"a","B">>, <<" ","b">> }

\* the objects {title?, content?} passed to handleUpdateNote
FieldSets ==
    { [k \in D |-> IF k = "title" THEN t ELSE c] :
        D \in SUBSET {"title", "content"}, t \in Titles, c \in Contents }

Rands == 0 .. ((IF MaxRand < RandSpan THEN MaxRand ELSE RandSpan) - 1)

\* an id generateId can never return (its random part is out of range)
GhostId == <<0, RandSpan>>

Range(s) == { s[i] : i \in 1..Len(s) }

\* ids a caller may pass: every id ever issued, and one that never was
IdArgs == Range(issued) \cup {GhostId}

----------------------------------------------------------------------------
(* String primitives *)

ToLowerChar(c) ==
    CASE c = "A" -> "a"
      [] c = "B" -> "b"
      [] c = "G" -> "g"
      [] c = "N" -> "n"
      [] c = "U" -> "u"
      [] OTHER -> c

toLowerCase(s) == [i \in 1..Len(s) |-> ToLowerChar(s[i])]

IsWhiteSpace(c) == c = " "

\* String.prototype.trim: strip leading and trailing white space
trim(s) ==
    LET keep == { i \in 1..Len(s) : ~IsWhiteSpace(s[i]) }
    IN  IF keep = {} THEN <<>>
        ELSE LET lo == CHOOSE i \in keep : \A j \in keep : i <= j
                 hi == CHOOSE i \in keep : \A j \in keep : i >= j
             IN  SubSeq(s, lo, hi)

\* String.prototype.includes
includes(s, q) ==
    \E i \in 0..(Len(s) - Len(q)) : SubSeq(s, i + 1, i + Len(q)) = q

----------------------------------------------------------------------------
(* Derived views *)

\* a filter that matches against the trimmed query
filterNotesTrimmed(coll, query) ==
    IF trim(query) = <<>> THEN coll
    ELSE LET q == toLowerCase(trim(query))
             test(note) == \/ includes(toLowerCase(note.title), q)
                           \/ includes(toLowerCase(note.content), q)
         IN  SelectSeq(coll, test)

filterNotes(coll, query) ==
    IF trim(query) = <<>> THEN coll
    ELSE LET q == toLowerCase(query)
             test(note) == \/ includes(toLowerCase(note.title), q)
                           \/ includes(toLowerCase(note.content), q)
         IN  SelectSeq(coll, test)

filteredNotes == filterNotes(notes, searchQuery)

\* a lookup that falls back to the first note
resolveOrFirst(coll, id) ==
    LET hits == { i \in 1..Len(coll) : coll[i].id = id }
    IN  IF hits = {} THEN (IF coll = <<>> THEN undefined ELSE coll[1])
        ELSE coll[CHOOSE i \in hits : \A j \in hits : i <= j]

\* Array.prototype.find: the first element that satisfies the test, or undefined
resolveActiveNote(coll, id) ==
    LET hits == { i \in 1..Len(coll) : coll[i].id = id }
    IN  IF hits = {} THEN undefined
        ELSE coll[CHOOSE i \in hits : \A j \in hits : i <= j]

\* the active note looked up among the listed notes only
selectedNoteAmongListed == resolveActiveNote(filteredNotes, selectedNoteId)

selectedNote == resolveActiveNote(notes, selectedNoteId)

\* what <main> shows
mainContent == IF selectedNote # undefined THEN "NoteEditor" ELSE "EmptyState"

----------------------------------------------------------------------------
(* Rendering: the handlers of the next event close over the new state *)

\* handlers that keep the values of the first render
StaleRender(newNotes, newSelectedNoteId) ==
    UNCHANGED <<cNotes, cSelectedNoteId>>

Render(newNotes, newSelectedNoteId) ==
    /\ cNotes' = newNotes
    /\ cSelectedNoteId' = newSelectedNoteId

\* one more event handled: the history variables
Record(op, id, fields) ==
    /\ steps < MaxSteps
    /\ steps' = steps + 1
    /\ last' = [op |-> op, id |-> id, fields |-> fields]
    /\ prevNotes' = notes
    /\ prevSelectedNoteId' = selectedNoteId
    /\ prevTitle' = title
    /\ prevContent' = content
    /\ saves' = IF op = "save" THEN (IF saves < 2 THEN saves + 1 ELSE saves)
                ELSE IF op \in {"tick", "search"} THEN saves
                ELSE 0

----------------------------------------------------------------------------
(* The editor, rendered after every event.  It is mounted while
   selectedNote is truthy; its staged fields start as the note's, and the
   effect on [note.id] loads them again when another id is rendered. *)

NoteEditor(stagedTitle, stagedContent) ==
    IF selectedNote' = undefined
    THEN title' = <<>> /\ content' = <<>> /\ loadedFrom' = null
    ELSE IF selectedNote = undefined \/ selectedNote'.id # selectedNote.id
    THEN /\ title' = selectedNote'.title
         /\ content' = selectedNote'.content
         /\ loadedFrom' = selectedNote'.id
    ELSE /\ title' = stagedTitle
         /\ content' = stagedContent
         /\ loadedFrom' = loadedFrom

----------------------------------------------------------------------------
(* Handlers *)

generateId(r) == <<now, r>>

Init ==
    /\ notes = <<>>
    /\ selectedNoteId = null
    /\ searchQuery = <<>>
    /\ now = 0
    /\ cNotes = <<>>
    /\ cSelectedNoteId = null
    /\ issued = <<>>
    /\ last = [op |-> "init", id |-> null, fields |-> NoFields]
    /\ prevNotes = <<>>
    /\ prevSelectedNoteId = null
    /\ title = <<>>
    /\ content = <<>>
    /\ prevTitle = <<>>
    /\ prevContent = <<>>
    /\ loadedFrom = null
    /\ saves = 0
    /\ steps = 0

\* a create that adds the note at the end
AppendLast(note, coll) == coll \o <<note>>

\* [note, ...notes]
Prepend(note, coll) == <<note>> \o coll

handleCreateNote(r) ==
    /\ LET note == [ id |-> generateId(r),
                     title |-> UntitledNote,
                     content |-> <<>>,
                     created |-> now,
                     updated |-> now ]
       IN  /\ notes' = Prepend(note, cNotes)
           /\ selectedNoteId' = note.id
           /\ issued' = Append(issued, note.id)
           /\ Record("create", note.id, NoFields)
    /\ Render(notes', selectedNoteId')
    /\ UNCHANGED <<searchQuery, now>>
    /\ NoteEditor(title, content)

\* an update that skips a note whose fields already have the new values
SpreadIfChanged(n, newFields) ==
    IF \A k \in DOMAIN newFields : k \in DOMAIN n /\ n[k] = newFields[k]
    THEN n
    ELSE [ [k \in DOMAIN n \cup DOMAIN newFields |->
               IF k \in DOMAIN newFields THEN newFields[k] ELSE n[k]]
           EXCEPT !["updated"] = now ]

\* an update that stamps created as well
SpreadStampingCreated(n, newFields) ==
    [ [k \in DOMAIN n \cup DOMAIN newFields |->
          IF k \in DOMAIN newFields THEN newFields[k] ELSE n[k]]
      EXCEPT !["updated"] = now, !["created"] = now ]

\* an update that writes the supplied title and drops the content
SpreadTitleOnly(n, newFields) ==
    [ [k \in DOMAIN n |->
          IF k = "title" /\ k \in DOMAIN newFields THEN newFields[k] ELSE n[k]]
      EXCEPT !["updated"] = now ]

\* { ...n, ...newFields, updated: new Date().toISOString() }
Spread(n, newFields) ==
    [ [k \in DOMAIN n \cup DOMAIN newFields |->
          IF k \in DOMAIN newFields THEN newFields[k] ELSE n[k]]
      EXCEPT !["updated"] = now ]

\* the body of handleUpdateNote; op tells the history who called it
Update(op, id, newFields) ==
    /\ notes' = [i \in 1..Len(notes) |->
                    IF notes[i].id = id THEN Spread(notes[i], newFields)
                                        ELSE notes[i]]
    /\ Record(op, id, newFields)
    /\ Render(notes', selectedNoteId)
    /\ UNCHANGED <<selectedNoteId, searchQuery, now, issued>>
    /\ NoteEditor(title, content)

handleUpdateNote(id, newFields) == Update("update", id, newFields)

\* a delete that leaves the selection alone
KeepSelection(id) == selectedNoteId

\* a delete that always clears the selection
ClearSelection(id) == null

\* if (selectedNoteId === id) setSelectedNoteId(null)
SelectionAfterDelete(id) ==
    IF cSelectedNoteId = id THEN null ELSE selectedNoteId

handleDeleteNote(id) ==
    /\ LET keep(n) == n.id # id
       IN  notes' = SelectSeq(notes, keep)
    /\ selectedNoteId' = SelectionAfterDelete(id)
    /\ Record("delete", id, NoFields)
    /\ Render(notes', selectedNoteId')
    /\ UNCHANGED <<searchQuery, now, issued>>
    /\ NoteEditor(title, content)

handleSelectNote(id) ==
    /\ selectedNoteId' = id
    /\ Record("select", id, NoFields)
    /\ Render(notes, selectedNoteId')
    /\ UNCHANGED <<notes, searchQuery, now, issued>>
    /\ NoteEditor(title, content)

\* a search that keeps only the matching notes in the store
handleSearchChangeStoringMatches(value) ==
    /\ searchQuery' = value
    /\ notes' = filterNotes(notes, value)
    /\ Record("search", null, NoFields)
    /\ Render(notes', selectedNoteId)
    /\ UNCHANGED <<selectedNoteId, now, issued>>
    /\ NoteEditor(title, content)

handleSearchChange(value) ==
    /\ searchQuery' = value
    /\ Record("search", null, NoFields)
    /\ Render(notes, selectedNoteId)
    /\ UNCHANGED <<notes, selectedNoteId, now, issued>>
    /\ NoteEditor(title, content)

\* onChange of the title input: setTitle(e.target.value)
handleTitleChange(value) ==
    /\ selectedNote # undefined
    /\ Record("edit", selectedNote.id, [title |-> value])
    /\ Render(notes, selectedNoteId)
    /\ UNCHANGED <<notes, selectedNoteId, searchQuery, now, issued>>
    /\ NoteEditor(value, content)

\* onChange of the content textarea: setContent(e.target.value)
handleContentChange(value) ==
    /\ selectedNote # undefined
    /\ Record("edit", selectedNote.id, [content |-> value])
    /\ Render(notes, selectedNoteId)
    /\ UNCHANGED <<notes, selectedNoteId, searchQuery, now, issued>>
    /\ NoteEditor(title, value)

\* a save that never compares
AlwaysDirty == TRUE

\* title !== note.title || content !== note.content
Dirty == title # selectedNote.title \/ content # selectedNote.content

\* a commit that passes on the title only
onUpdateTitleOnly(fields) ==
    Update("save", selectedNote.id, [title |-> fields.title])

\* onUpdate={(fields) => handleUpdateNote(selectedNote.id, fields)}
onUpdate(fields) == Update("save", selectedNote.id, fields)

\* onBlur of either field, or Ctrl/Cmd+S
handleSave ==
    /\ selectedNote # undefined
    /\ IF Dirty
       THEN onUpdate([title |-> title, content |-> content])
       ELSE /\ Record("save", selectedNote.id, NoFields)
            /\ Render(notes, selectedNoteId)
            /\ UNCHANGED <<notes, selectedNoteId, searchQuery, now, issued>>
            /\ NoteEditor(title, content)

\* the wall clock advances between events
Tick ==
    /\ now' = now + 1
    /\ Record("tick", null, NoFields)
    /\ UNCHANGED <<notes, selectedNoteId, searchQuery, cNotes, cSelectedNoteId,
                   issued, title, content, loadedFrom>>

----------------------------------------------------------------------------
(* Events *)

CreateNote == \E r \in Rands : handleCreateNote(r)

UpdateNote == \E id \in IdArgs, f \in FieldSets : handleUpdateNote(id, f)

DeleteNote == \E id \in IdArgs : handleDeleteNote(id)

\* the store's select, with any id or none
SelectNote == \E id \in IdArgs \cup {null} : handleSelectNote(id)

\* a click on an item of the sidebar, which lists filteredNotes
SelectListed ==
    \E i \in 1..Len(filteredNotes) : handleSelectNote(filteredNotes[i].id)

SearchChange == \E value \in Queries : handleSearchChange(value)

\* a confirmed click on the delete button of an item of the sidebar
DeleteListed ==
    \E i \in 1..Len(filteredNotes) : handleDeleteNote(filteredNotes[i].id)

EditTitle == \E value \in Titles : handleTitleChange(value)

EditContent == \E value \in Contents : handleContentChange(value)

Save == handleSave

Next ==
    \/ CreateNote
    \/ UpdateNote
    \/ DeleteNote
    \/ SelectNote
    \/ SelectListed
    \/ SearchChange
    \/ Tick

Spec == Init /\ [][Next]_vars

(* The same store when selectNote is only ever called from the sidebar,
   with the id of a listed note *)
NextListed ==
    \/ CreateNote
    \/ UpdateNote
    \/ DeleteNote
    \/ SelectListed
    \/ SearchChange
    \/ Tick

SpecListed == Init /\ [][NextListed]_vars

(* The derived views applied to any collection: the store holds any
   collection of at most MaxNotes notes, and one more event (a new search
   text, a selection) is handled and rendered *)
NoteUniverse ==
    [ id : {0} \X Rands, title : Titles, content : Contents,
      created : {0}, updated : {0} ]

InitView ==
    /\ notes \in UNION { [1..n -> NoteUniverse] : n \in 0..MaxNotes }
    /\ selectedNoteId = null
    /\ searchQuery = <<>>
    /\ now = 0
    /\ cNotes = notes
    /\ cSelectedNoteId = null
    /\ issued = [i \in 1..Len(notes) |-> notes[Len(notes) + 1 - i].id]
    /\ last = [op |-> "init", id |-> null, fields |-> NoFields]
    /\ prevNotes = notes
    /\ prevSelectedNoteId = null
    /\ title = <<>>
    /\ content = <<>>
    /\ prevTitle = <<>>
    /\ prevContent = <<>>
    /\ loadedFrom = null
    /\ saves = 0
    /\ steps = MaxSteps - 1

NextView ==
    \/ SearchChange
    \/ SelectNote

SpecView == InitView /\ [][NextView]_vars

(* The application as the user drives it: every event comes from a control
   the page renders *)
NextUI ==
    \/ CreateNote
    \/ SelectListed
    \/ DeleteListed
    \/ EditTitle
    \/ EditContent
    \/ Save
    \/ SearchChange
    \/ Tick

SpecUI == Init /\ [][NextUI]_vars

(* The store driven with the texts of the end-to-end scenario *)
ScenarioUpdate ==
    \E id \in IdArgs :
        handleUpdateNote(id, [title |-> Groceries, content |-> MilkEggs])

ScenarioSearch == handleSearchChange(Milk)

NextScenario ==
    \/ CreateNote
    \/ ScenarioUpdate
    \/ ScenarioSearch
    \/ DeleteNote
    \/ Tick

SpecScenario == Init /\ [][NextScenario]_vars

----------------------------------------------------------------------------
(* Properties *)

NoteIds(coll) == { coll[i].id : i \in 1..Len(coll) }

Existed(id) == id \in NoteIds(prevNotes)

\* C1: the ids createNote assigns are pairwise distinct over the whole
\* session: no two notes of the collection share an id, and the id of a
\* deleted note is never assigned to a later note.
C1_IdsPairwiseDistinct ==
    /\ \A i, j \in 1..Len(issued) : i # j => issued[i] # issued[j]
    /\ \A i, j \in 1..Len(notes) : i # j => notes[i].id # notes[j].id

\* C2: after createNote the selected id is the new note's id, the new note
\* is the first element, and the notes that existed before follow it in
\* their previous order, none lost.
C2_CreatePrependsAndSelects ==
    last.op = "create" =>
        /\ Len(notes) = Len(prevNotes) + 1
        /\ notes[1].id = last.id
        /\ selectedNoteId = notes[1].id
        /\ Tail(notes) = prevNotes

C2_Witness ==
    /\ last.op = "create"
    /\ Len(prevNotes) = 2
    /\ prevNotes[1] # prevNotes[2]
    /\ prevSelectedNoteId # selectedNoteId

\* the update was given a title and a content equal to the current ones
SuppliesCurrent(coll, id, f) ==
    /\ DOMAIN f = {"title", "content"}
    /\ id \in NoteIds(coll)
    /\ \A i \in 1..Len(coll) :
          coll[i].id = id =>
              f["title"] = coll[i].title /\ f["content"] = coll[i].content

\* C3 as stated: updateNote with a title and content equal to the note's
\* current ones is a no-op: the collection is unchanged, `updated` included.
C3_SameFieldsIsNoOp ==
    (last.op = "update" /\ SuppliesCurrent(prevNotes, last.id, last.fields))
        => notes = prevNotes

\* C3 amended: updateNote with a title and content equal to the current ones
\* changes nothing of the collection but the `updated` of every note with
\* that id, which it sets to the current time.
C3_SameFieldsBumpsUpdatedOnly ==
    (last.op = "update" /\ SuppliesCurrent(prevNotes, last.id, last.fields))
        => notes = [i \in 1..Len(prevNotes) |->
                       IF prevNotes[i].id = last.id
                       THEN [prevNotes[i] EXCEPT !.updated = now]
                       ELSE prevNotes[i]]

C3_Witness ==
    /\ last.op = "update"
    /\ SuppliesCurrent(prevNotes, last.id, last.fields)
    /\ \E i \in 1..Len(notes) :
          notes[i].id = last.id /\ notes[i].updated > prevNotes[i].updated

\* the value a field has after update(id, f)
Supplied(f, k, old) == IF k \in DOMAIN f THEN f[k] ELSE old

\* C4: updateNote on an existing id replaces only the supplied fields of the
\* matching note and sets its `updated` to the current time, not earlier than
\* before; its id and created, every other note, the order and length of the
\* collection and the selected id are unchanged.
C4_UpdateChangesOnlyThatNote ==
    (last.op = "update" /\ Existed(last.id)) =>
        /\ Len(notes) = Len(prevNotes)
        /\ selectedNoteId = prevSelectedNoteId
        /\ \E k \in 1..Len(prevNotes) :
              /\ prevNotes[k].id = last.id
              /\ notes[k].id = prevNotes[k].id
              /\ notes[k].created = prevNotes[k].created
              /\ notes[k].title =
                     Supplied(last.fields, "title", prevNotes[k].title)
              /\ notes[k].content =
                     Supplied(last.fields, "content", prevNotes[k].content)
              /\ notes[k].updated = now
              /\ notes[k].updated >= prevNotes[k].updated
              /\ \A i \in 1..Len(prevNotes) :
                    i # k => notes[i] = prevNotes[i]

\* the collection without its k-th element
Without(coll, k) == SubSeq(coll, 1, k - 1) \o SubSeq(coll, k + 1, Len(coll))

\* C5: deleteNote on an existing id removes exactly that note and keeps the
\* others in order; the selection becomes none if it was that id and stays
\* what it was otherwise.
C5_DeleteRemovesExactlyThatNote ==
    (last.op = "delete" /\ Existed(last.id)) =>
        /\ \E k \in 1..Len(prevNotes) :
              prevNotes[k].id = last.id /\ notes = Without(prevNotes, k)
        /\ selectedNoteId =
              IF prevSelectedNoteId = last.id THEN null
                                              ELSE prevSelectedNoteId

\* C6 as stated: updateNote and deleteNote with an id that matches no note
\* change neither the collection nor the selected id, also when the selected
\* id is that id.
C6_UnknownIdChangesNothing ==
    (last.op \in {"update", "delete"} /\ ~Existed(last.id)) =>
        /\ notes = prevNotes
        /\ selectedNoteId = prevSelectedNoteId

\* C6 amended: updateNote and deleteNote with an id that matches no note
\* leave the collection unchanged; updateNote leaves the selected id
\* unchanged, and deleteNote leaves it unchanged unless the selected id is
\* that id, in which case the selection becomes none.
C6_UnknownIdKeepsCollection ==
    (last.op \in {"update", "delete"} /\ ~Existed(last.id)) =>
        /\ notes = prevNotes
        /\ selectedNoteId =
              IF last.op = "delete" /\ prevSelectedNoteId = last.id
              THEN null
              ELSE prevSelectedNoteId

C6_Witness ==
    /\ last.op = "delete"
    /\ ~Existed(last.id)
    /\ notes # <<>>
    /\ prevSelectedNoteId = last.id
    /\ selectedNoteId = null

\* C7: when select is only called with ids of the collection, the selected
\* id is none or the id of a note of the collection.
C7_SelectionIsNoneOrPresent ==
    selectedNoteId = null \/ selectedNoteId \in NoteIds(notes)

C7_Witness ==
    /\ last.op = "delete"
    /\ Existed(last.id)
    /\ prevSelectedNoteId = last.id
    /\ notes # <<>>
    /\ selectedNoteId = null

\* C8: every handler works on the state the previous event produced: the
\* values its closure holds are the current ones, so a create keeps every
\* note that was there and a delete decides on the current selection.
C8_HandlersSeeCurrentState ==
    /\ cNotes = notes
    /\ cSelectedNoteId = selectedNoteId
    /\ last.op = "create" => Tail(notes) = prevNotes
    /\ last.op = "delete" =>
          selectedNoteId = IF prevSelectedNoteId = last.id
                           THEN null ELSE prevSelectedNoteId

\* a create that follows the delete of the only note
C8_Witness ==
    /\ last.op = "create"
    /\ Len(issued) = 2
    /\ issued[1] # issued[2]
    /\ prevNotes = <<>>
    /\ Len(notes) = 1
    /\ notes[1].id = issued[2]

IsBlank(query) == \A i \in 1..Len(query) : query[i] = " "

\* s contains q as a substring, letter case ignored
ContainsIgnoringCase(s, q) ==
    \E k \in 0..(Len(s) - Len(q)) :
        \A j \in 1..Len(q) : ToLowerChar(s[k + j]) = ToLowerChar(q[j])

Matching(coll, query) ==
    { i \in 1..Len(coll) :
        \/ ContainsIgnoringCase(coll[i].title, query)
        \/ ContainsIgnoringCase(coll[i].content, query) }

\* C9: filterNotes returns the whole collection for an empty or all-blank
\* query, and otherwise exactly the notes whose title or content contains the
\* query, letter case ignored, in the order of the collection.
C9_FilterIsOrderedMatches ==
    IF IsBlank(searchQuery)
    THEN filteredNotes = notes
    ELSE LET M == Matching(notes, searchQuery)
         IN  /\ Len(filteredNotes) = Cardinality(M)
             /\ \A i \in M :
                   filteredNotes[Cardinality({ j \in M : j < i }) + 1]
                       = notes[i]

C9_Witness ==
    /\ last.op = "search"
    /\ ~IsBlank(searchQuery)
    /\ Len(notes) = 3
    /\ Matching(notes, searchQuery) = {2, 3}
    /\ notes[2] # notes[3]
    /\ filteredNotes = <<notes[2], notes[3]>>

\* C10: resolveActiveNote returns, for every collection and selected id, a
\* note of the collection with that id when there is one and "none"
\* otherwise; <main> then shows the editor or the empty state.
C10_ResolveIsTotal ==
    IF selectedNoteId \in NoteIds(notes)
    THEN /\ selectedNote \in Range(notes)
         /\ selectedNote.id = selectedNoteId
         /\ mainContent = "NoteEditor"
    ELSE /\ selectedNote = undefined
         /\ mainContent = "EmptyState"

C10_Witness ==
    /\ last.op = "select"
    /\ selectedNoteId \notin NoteIds(notes)
    /\ selectedNoteId # null
    /\ notes # <<>>
    /\ selectedNote = undefined

\* the steps of the end-to-end scenario, for a given title of a new note
Scenario(newTitle) ==
    /\ (last.op = "create" /\ prevNotes = <<>>) =>
          /\ notes = << [ id |-> last.id, title |-> newTitle,
                          content |-> <<>>, created |-> now,
                          updated |-> now ] >>
          /\ selectedNoteId = last.id
    /\ (last.op = "update" /\ Len(prevNotes) = 1 /\ Existed(last.id)
            /\ last.fields = [title |-> Groceries, content |-> MilkEggs]) =>
          /\ Len(notes) = 1
          /\ notes[1].title = Groceries
          /\ notes[1].content = MilkEggs
          /\ filterNotes(notes, Milk) = notes
    /\ (last.op = "delete" /\ Len(prevNotes) = 1 /\ Existed(last.id)
            /\ prevSelectedNoteId = last.id) =>
          /\ notes = <<>>
          /\ selectedNoteId = null

\* C11 as stated: from the empty collection createNote yields one selected
\* note with title "", content "" and created = updated = the time of the
\* operation; updateNote then sets "Groceries" and "milk, eggs", filterNotes
\* with "milk" returns that note, and deleteNote yields the empty collection
\* with no selection.
C11_ScenarioWithEmptyTitle == Scenario(<<>>)

\* C11 amended: the same scenario, the new note having the title
\* "Untitled Note".
C11_ScenarioWithUntitledNote ==
    Scenario(<<"U","n","t","i","t","l","e","d"," ","N","o","t","e">>)

C11_Witness ==
    /\ last.op = "delete"
    /\ steps = 4
    /\ searchQuery = Milk
    /\ Len(prevNotes) = 1
    /\ prevNotes[1].title = Groceries
    /\ prevNotes[1].content = MilkEggs
    /\ prevNotes[1].created = now
    /\ notes = <<>>
    /\ selectedNoteId = null

\* C12: every note has updated >= created, updated = created right after
\* its creation, and a note keeps its created for as long as it exists.
C12_TimestampsOrderedCreatedFixed ==
    /\ \A i \in 1..Len(notes) : notes[i].updated >= notes[i].created
    /\ last.op = "create" => notes[1].updated = notes[1].created
    /\ CASE last.op = "create" -> Tail(notes) = prevNotes
         [] last.op \in {"update", "save"} ->
               /\ Len(notes) = Len(prevNotes)
               /\ \A i \in 1..Len(notes) :
                     /\ notes[i].id = prevNotes[i].id
                     /\ notes[i].created = prevNotes[i].created
         [] last.op = "delete" ->
               \A i \in 1..Len(notes) : notes[i] \in Range(prevNotes)
         [] OTHER -> notes = prevNotes

C12_Witness ==
    /\ last.op = "update"
    /\ \E i \in 1..Len(notes) :
          /\ notes[i].id = last.id
          /\ notes[i].updated > prevNotes[i].updated
          /\ notes[i].updated > notes[i].created
          /\ notes[i].title # prevNotes[i].title

\* the note that was active before the last event
PrevActive == resolveActiveNote(prevNotes, prevSelectedNoteId)

\* the last event made another note the active one: a create always does,
\* a select does when it names a note other than the one that was active
Activated ==
    /\ selectedNote # undefined
    /\ \/ last.op = "create"
       \/ /\ last.op = "select"
          /\ PrevActive = undefined \/ PrevActive.id # selectedNote.id

\* C13: whenever a different note becomes the active note, the staged title
\* and content are exactly that note's committed title and content, and the
\* event writes the edits staged before it to no note.
C13_ActivationLoadsCommittedFields ==
    Activated =>
        /\ title = selectedNote.title
        /\ content = selectedNote.content
        /\ IF last.op = "create" THEN Tail(notes) = prevNotes
                                 ELSE notes = prevNotes

\* the save trigger found a staged field that differs from the committed one
StagedDiffered ==
    prevTitle # PrevActive.title \/ prevContent # PrevActive.content

\* C14: a save trigger calls the store's update exactly when the staged
\* title or content differs from the active note's committed value; with
\* both equal the collection, updated included, is unchanged.
C14_SaveUpdatesOnlyWhenStagedDiffers ==
    last.op = "save" =>
        /\ (last.fields # NoFields) <=> StagedDiffered
        /\ ~StagedDiffered => notes = prevNotes

C14_Witness ==
    /\ last.op = "save"
    /\ ~StagedDiffered
    /\ now > PrevActive.updated
    /\ notes = prevNotes

\* C15: of two save triggers in a row with no edit between them, the
\* second changes nothing: it does not call update, and the collection
\* (title, content and updated of every note), the selection and the
\* staged fields are what the first save left.
C15_SecondSaveChangesNothing ==
    (last.op = "save" /\ saves = 2) =>
        /\ last.fields = NoFields
        /\ notes = prevNotes
        /\ selectedNoteId = prevSelectedNoteId
        /\ title = prevTitle
        /\ content = prevContent

\* the second save after a first one that committed an edit
C15_Witness ==
    /\ last.op = "save"
    /\ saves = 2
    /\ selectedNote # undefined
    /\ selectedNote.title # UntitledNote \/ selectedNote.content # <<>>
    /\ title = selectedNote.title
    /\ content = selectedNote.content

\* C16: a change of the search text, with the filtered view computed from
\* it, leaves the collection (elements, fields, order) and the selected id
\* as they were; the view is the function filterNotes of the collection
\* and the text, and the notes it lists are notes of the collection.
C16_SearchLeavesStoreUnchanged ==
    /\ last.op = "search" =>
          /\ notes = prevNotes
          /\ selectedNoteId = prevSelectedNoteId
    /\ filteredNotes = filterNotes(notes, searchQuery)
    /\ Range(filteredNotes) \subseteq Range(notes)

\* a search text that hides a note of the collection while one is selected
C16_Witness ==
    /\ last.op = "search"
    /\ searchQuery # <<>>
    /\ Len(filteredNotes) < Len(notes)
    /\ selectedNoteId \in NoteIds(notes)

\* the last event was a save that called update
Committed == last.op = "save" /\ last.fields # NoFields

\* the notes a call of update with this id writes to
Written(id) == { i \in 1..Len(prevNotes) : prevNotes[i].id = id }

\* C17: whenever the editor's save calls update, the id it updates is the
\* id of the note the staged title and content were loaded from, and the
\* staged text is written to that note and to no other note.
C17_SaveWritesOnlyTheNoteLoaded ==
    Committed =>
        /\ last.id = loadedFrom
        /\ last.fields = [title |-> prevTitle, content |-> prevContent]
        /\ Cardinality(Written(last.id)) = 1

\* the search text hides the active note from the list
ActiveIsHidden ==
    /\ selectedNote # undefined
    /\ \A i \in 1..Len(filteredNotes) : filteredNotes[i].id # selectedNote.id

\* C18: the active note is looked up in the whole collection, not in the
\* filtered view: a created note is the active note whether or not the
\* search text lists it, a change of the search text leaves the active note
\* as it was, and a save commits to the active note, listed or hidden.
C18_ActiveNoteIgnoresFilter ==
    /\ last.op = "create" =>
          /\ mainContent = "NoteEditor"
          /\ selectedNote = notes[1]
          /\ selectedNote.id = last.id
    /\ last.op = "search" => selectedNote = PrevActive
    /\ Committed =>
          /\ selectedNote # undefined
          /\ selectedNote.id = PrevActive.id
          /\ selectedNote.title = last.fields.title
          /\ selectedNote.content = last.fields.content

\* a save committed to a note that the search text hid before and after
C18_Witness ==
    /\ Committed
    /\ ~IsBlank(searchQuery)
    /\ ActiveIsHidden
    /\ filterNotes(prevNotes, searchQuery) = <<>>
    /\ selectedNote.content # <<>>

\* C19: after a save that commits, and the render that follows it, the
\* active note's committed title and content are the staged title and
\* content, and the staged fields are what they were before the save.
C19_CommitMatchesStagedFields ==
    Committed =>
        /\ selectedNote # undefined
        /\ selectedNote.title = title
        /\ selectedNote.content = content
        /\ title = prevTitle
        /\ content = prevContent
        /\ loadedFrom = selectedNote.id

\* a save that committed an edited title and an edited content
C19_Witness ==
    /\ Committed
    /\ title # PrevActive.title
    /\ content # PrevActive.content
    /\ selectedNote.title = title
    /\ selectedNote.content = content

====
